---- MODULE Spec2Model ----
(***************************************************************************)
(* Model of parallelSimplex.cpp: the OpenMP tableau simplex.  One parallel *)
(* region (lines 289-368) is executed by numbThreads threads; every        *)
(* work-sharing loop, reduction combine, single section, barrier and the   *)
(* loop test is an action.  Tableau entries are exact rationals <<n, d>>   *)
(* (d > 0, lowest terms); HUGE_VAL is <<1, 0>>.                            *)
(***************************************************************************)
EXTENDS Integers, Sequences, FiniteSets, TLC

VARIABLES
    constraintNumb, \* number of constraint rows (after line 265)
    colNumb,        \* index of the RHS column (after line 266)
    numbThreads,    \* argv[2]
    chunk,          \* argv[3]
    tableau,        \* tableau[i][j], i \in 0..constraintNumb, j \in 0..colNumb
    oob,            \* oob[i]: the memory word read by tableau[i][-1]
    max,            \* shared struct Compare_Max
    min,            \* shared struct Compare_Min
    count,          \* shared ineligible-row counter
    conta,          \* shared remaining-violations counter
    ni,             \* iteration counter
    pc,             \* pc[t]: position of thread t in the parallel region
    pivot,          \* private double pivot
    pivot3,         \* private double pivot3
    pmax,           \* private reduction copy of max
    pmin,           \* private reduction copy of min
    pcount,         \* private reduction copy of count
    pconta,         \* private reduction copy of conta
    next,           \* next unassigned iteration of the active guided loop
    elimI,          \* private loop index i of the static elimination loop
    single,         \* TRUE when the current single construct has been taken
    status,         \* "Running", "Optimal", "Unbounded", "Crashed"
    T0,             \* history: the tableau handed to the engine
    prevObj,        \* history: objective value at the end of the previous iteration
    curObj,         \* history: objective value at the end of the last iteration
    snap,           \* history: pivot and objective factor when the ratio test ended
    first,          \* history: result of the first of two runs on the same input
    hist,           \* history: resets and pivots performed, pivot row at the ratio test's end
    alloc           \* state of alocate_matrix

\* never written inside the parallel region
fixedVars == <<constraintNumb, colNumb, numbThreads, chunk, oob, T0, first, alloc>>

vars == <<fixedVars, tableau, max, min, count, conta, ni, pc, pivot, pivot3,
          pmax, pmin, pcount, pconta, next, elimI, single, status, prevObj,
          curObj, snap, hist>>

----------------------------------------------------------------------------
(* Bounds of the model *)

\* largest thread count tried (argv[2] ranges over 1..MaxThreads)
MaxThreads == 2
\* largest chunk size tried (argv[3] ranges over 1..MaxChunk)
MaxChunk == 2
\* constraint coefficients of the generated tableaux range over 0..MaxCoef
MaxCoef == 1
\* right-hand sides of the generated tableaux range over 0..MaxRhs
MaxRhs == 1
\* objective-row entries of the generated tableaux range over -MaxCost..0
MaxCost == 2
\* pivots after which the model stops following a run
MaxNi == 6
\* largest row count tried by alocate_matrix
MaxNL == 4
\* addresses a successful new[] of the row-pointer array may return: 1..MaxAddr
MaxAddr == 2

----------------------------------------------------------------------------
(* double arithmetic, as exact rationals *)

Abs(x) == IF x < 0 THEN -x ELSE x

RECURSIVE GCD(_, _)
GCD(a, b) == IF b = 0 THEN a ELSE GCD(b, a % b)

\* the rational n/d in lowest terms with a positive denominator; n/0 is HUGE_VAL
Rat(n, d) ==
    IF d = 0 THEN <<1, 0>>
    ELSE IF n = 0 THEN <<0, 1>>
    ELSE LET g == GCD(Abs(n), Abs(d))
             s == IF d < 0 THEN -1 ELSE 1
         IN  <<(s * n) \div g, (s * d) \div g>>

RInt(n) == <<n, 1>>
Zero == <<0, 1>>
HUGE_VAL == <<1, 0>>

RNeg(a) == <<-a[1], a[2]>>
RAdd(a, b) == Rat(a[1] * b[2] + b[1] * a[2], a[2] * b[2])
RMul(a, b) == Rat(a[1] * b[1], a[2] * b[2])
RDiv(a, b) == Rat(a[1] * b[2], a[2] * b[1])
RLess(a, b) == a[1] * b[2] < b[1] * a[2]

----------------------------------------------------------------------------
(* Inputs handed to the engine by read_data *)

\* a (cn+1) x (col+1) tableau from integer rows
MkTableau(rows) ==
    [i \in 0..(Len(rows) - 1) |->
        [j \in 0..(Len(rows[1]) - 1) |-> RInt(rows[i + 1][j + 1])]]

MkInput(rows) ==
    [cn |-> Len(rows) - 1, col |-> Len(rows[1]) - 1, t |-> MkTableau(rows)]

\* spec.md section 8, first scenario: maximize 3x1+5x2
Scenario1 ==
    MkInput(<< <<1, 0, 1, 0, 0, 4>>,
               <<0, 2, 0, 1, 0, 12>>,
               <<3, 2, 0, 0, 1, 18>>,
               <<-3, -5, 0, 0, 0, 0>> >>)

\* spec.md section 8, second scenario: the entering column has no positive entry
Scenario2 ==
    MkInput(<< <<-1, 0, 5>>,
               <<-1, 0, 0>> >>)

\* a tableau whose objective-value cell is negative on entry to the engine
Scenario3 ==
    MkInput(<< <<1, 0, 1>>,
               <<0, 1, 1>>,
               <<-1, 0, -2>> >>)

\* one constraint, three variables: two objective-row entries of different
\* size stay negative after the first pivot
Scenario4 ==
    MkInput(<< <<1, 0, 0, 1>>,
               <<-3, -1, -2, 0>> >>)

\* two constraints, two variables: every tableau with coefficients in
\* 0..MaxCoef, right-hand sides in 0..MaxRhs, objective entries in -MaxCost..0
\* and objective value 0
Generated ==
    { MkInput(<< <<a[1], a[2], b[1]>>,
                 <<a[3], a[4], b[2]>>,
                 <<c[1], c[2], 0>> >>) :
        a \in [1..4 -> 0..MaxCoef],
        b \in [1..2 -> 0..MaxRhs],
        c \in [1..2 -> (-MaxCost)..0] }

Inputs == Generated \cup {Scenario1, Scenario2, Scenario3, Scenario4}

\* values the word in front of a row buffer may hold when read as a double
GarbageVals == {RInt(-1), RInt(1)}

\* the initial scan of lines 294-299 will leave max.index at -1
ScanFindsNone(inp) ==
    \A j \in 0..inp.col : ~RLess(inp.t[inp.cn][j], Zero)

----------------------------------------------------------------------------
(* Helpers of the parallel region *)

Threads == 0..(numbThreads - 1)

NoVal == <<0, 0>>

NoFirst == [ni |-> -1, obj |-> NoVal]

NoSnap == [p |-> NoVal, f |-> NoVal]

\* nothing reset, no pivot performed, no pivot row chosen
NoHist == [scratch |-> 0, sentinel |-> 0, pivots |-> 0, row |-> <<>>]

\* struct Compare_Max / Compare_Min default member initialisers, lines 75-83
EmptyMax == [val |-> Zero, index |-> -1]
EmptyMin == [val |-> HUGE_VAL, index |-> -1]

\* a combiner that never takes the incoming partial result
CombineMaxKeepsOut(out, in) == out

\* declare reduction(maximo), line 85: omp_out = omp_in.val > omp_out.val ? omp_in : omp_out
CombineMax(out, in) == IF RLess(out.val, in.val) THEN in ELSE out

\* declare reduction(minimo), line 84: omp_out = omp_in.val < omp_out.val ? omp_in : omp_out
CombineMin(out, in) == IF RLess(in.val, out.val) THEN in ELSE out

\* schedule(guided,chunk): size of the next chunk when rem iterations are unassigned
GuidedSize(rem) ==
    LET q  == (rem + numbThreads - 1) \div numbThreads
        q2 == IF q < chunk THEN chunk ELSE q
    IN  IF q2 > rem THEN rem ELSE q2

\* a static schedule that starts every thread's block at iteration 0
StaticLoFromZero(t, n) == 0

\* default (static) schedule of "omp for": thread t's block of n iterations
StaticLo(t, n) ==
    LET q == n \div numbThreads
        r == n % numbThreads
    IN  IF t < r THEN (q + 1) * t ELSE q * t + r

StaticHi(t, n) ==
    LET q == n \div numbThreads
        r == n % numbThreads
    IN  StaticLo(t, n) + (IF t < r THEN q + 1 ELSE q)

\* tableau[i][j] for a row i of the matrix; j = -1 reads the word before the row
Cell(i, j) == IF j = -1 THEN oob[i] ELSE tableau[i][j]

\* a wrong threshold in the test of lines 296 / 352: only entries below -1 count
IsNegativeOffByOne(v) == RLess(v, RInt(-1))

\* the test of line 296 / 352: a strictly negative objective-row entry
IsNegative(v) == RLess(v, Zero)

\* a wrong test for line 309: a zero pivot-column entry counts as eligible
IsEligibleOrZero(e) == ~RLess(e, Zero)

\* the test of line 309: an eligible row of the ratio test
IsEligible(e) == RLess(Zero, e)

\* lines 296-299 for one column j, on the private copy m
ScanStep(j, m) ==
    LET v == tableau[constraintNumb][j]
    IN  IF IsNegative(v) /\ RLess(m.val, RNeg(v))
        THEN [val |-> RNeg(v), index |-> j] ELSE m

\* lines 295-299 over columns j..hi-1, folding into the private copy m
RECURSIVE ScanMax(_, _, _)
ScanMax(j, hi, m) ==
    IF j >= hi THEN m
    ELSE CHOOSE r \in {ScanMax(j + 1, hi, m1) : m1 \in {ScanStep(j, m)}} : TRUE

\* lines 309-316 for one row i; acc = [mn, cnt, pv]
RatioStep(i, acc) ==
    LET e == Cell(i, max.index)
    IN  IF IsEligible(e)
        THEN LET r == RDiv(tableau[i][colNumb], e)
             IN  [acc EXCEPT !.pv = r,
                             !.mn = IF RLess(r, acc.mn.val)
                                    THEN [val |-> r, index |-> i]
                                    ELSE acc.mn]
        ELSE [acc EXCEPT !.cnt = acc.cnt + 1]

\* lines 308-317 over rows i..hi-1; acc = [mn, cnt, pv]
RECURSIVE RatioRows(_, _, _)
RatioRows(i, hi, acc) ==
    IF i >= hi THEN acc
    ELSE CHOOSE r \in {RatioRows(i + 1, hi, a1) : a1 \in {RatioStep(i, acc)}} : TRUE

\* lines 351-358 for one column j with factor f; acc = [row, cnt, mx]
ObjStep(j, f, acc) ==
    LET v == RAdd(RMul(f, tableau[min.index][j]), acc.row[j])
        a1 == [acc EXCEPT !.row[j] = v]
    IN  IF j < colNumb /\ IsNegative(v)
        THEN [a1 EXCEPT !.cnt = acc.cnt + 1,
                        !.mx = IF RLess(acc.mx.val, RNeg(v))
                               THEN [val |-> RNeg(v), index |-> j]
                               ELSE acc.mx]
        ELSE a1

\* lines 350-359 over columns j..hi-1 with factor f; acc = [row, cnt, mx]
RECURSIVE ObjCols(_, _, _, _)
ObjCols(j, hi, f, acc) ==
    IF j >= hi THEN acc
    ELSE CHOOSE r \in {ObjCols(j + 1, hi, f, a1) : a1 \in {ObjStep(j, f, acc)}} : TRUE

----------------------------------------------------------------------------
(* State on entry to the parallel region, line 289 *)

AllocIdle == [pc |-> "idle", nL |-> 0, base |-> 0, i |-> 0, rows |-> <<>>]

Init ==
    \E inp \in Inputs :
        /\ constraintNumb = inp.cn
        /\ colNumb = inp.col
        /\ tableau = inp.t
        /\ T0 = inp.t
        /\ oob \in IF ScanFindsNone(inp)
                   THEN [0..inp.cn -> GarbageVals]
                   ELSE {[i \in 0..inp.cn |-> Zero]}
        /\ numbThreads \in 1..MaxThreads
        /\ chunk \in 1..MaxChunk
        /\ max = EmptyMax
        /\ min = EmptyMin
        /\ count = 0
        /\ conta = 0
        /\ ni = 0
        /\ pc = [t \in 0..(numbThreads - 1) |-> "scan0"]
        /\ pivot = [t \in 0..(numbThreads - 1) |-> Zero]
        /\ pivot3 = [t \in 0..(numbThreads - 1) |-> Zero]
        /\ pmax = [t \in 0..(numbThreads - 1) |-> EmptyMax]
        /\ pmin = [t \in 0..(numbThreads - 1) |-> EmptyMin]
        /\ pcount = [t \in 0..(numbThreads - 1) |-> 0]
        /\ pconta = [t \in 0..(numbThreads - 1) |-> 0]
        /\ next = 0
        /\ elimI = [t \in 0..(numbThreads - 1) |-> 0]
        /\ single = FALSE
        /\ status = "Running"
        /\ prevObj = NoVal
        /\ curObj = NoVal
        /\ snap = NoSnap
        /\ first = NoFirst
        /\ hist = NoHist
        /\ alloc = AllocIdle

Running(t, l) == status = "Running" /\ pc[t] = l

Goto(t, l) == pc' = [pc EXCEPT ![t] = l]

\* a barrier: every thread has arrived at label from; all leave for label to
BarrierStep(from, to) ==
    /\ status = "Running"
    /\ \A t \in Threads : pc[t] = from
    /\ pc' = [t \in Threads |-> to]
    /\ next' = 0
    /\ single' = FALSE

----------------------------------------------------------------------------
(* Lines 294-303: the initial entering-variable scan *)

\* one guided chunk of the loop of lines 295-299 (j = 0 .. colNumb)
Scan0Chunk(t) ==
    /\ Running(t, "scan0")
    /\ next <= colNumb
    /\ LET hi == next + GuidedSize(colNumb + 1 - next)
       IN  /\ pmax' = [pmax EXCEPT ![t] = ScanMax(next, hi, pmax[t])]
           /\ next' = hi
    /\ UNCHANGED <<fixedVars, hist, tableau, max, min, count, conta, ni, pc, pivot,
                   pivot3, pmin, pcount, pconta, elimI, single, status,
                   prevObj, curObj, snap>>

\* reduction(maximo:max) of line 294: the thread folds its copy into max
Scan0Combine(t) ==
    /\ Running(t, "scan0")
    /\ next > colNumb
    /\ max' = CombineMax(max, pmax[t])
    /\ pmax' = [pmax EXCEPT ![t] = EmptyMax]
    /\ Goto(t, "w_scan0")
    /\ UNCHANGED <<fixedVars, hist, tableau, min, count, conta, ni, pivot, pivot3,
                   pmin, pcount, pconta, next, elimI, single, status,
                   prevObj, curObj, snap>>

\* implicit barrier at the end of the loop of line 294
BarrierScan0 ==
    /\ BarrierStep("w_scan0", "single302")
    /\ UNCHANGED <<fixedVars, hist, tableau, max, min, count, conta, ni, pivot,
                   pivot3, pmax, pmin, pcount, pconta, elimI, status,
                   prevObj, curObj, snap>>

\* lines 302-303 left out: no thread clears max.val before the first iteration
Single302Skipped(t) ==
    /\ Running(t, "single302")
    /\ single' = TRUE
    /\ Goto(t, "ratio")
    /\ UNCHANGED <<fixedVars, hist, tableau, max, min, count, conta, ni, pivot,
                   pivot3, pmax, pmin, pcount, pconta, next, elimI, status,
                   prevObj, curObj, snap>>

\* lines 302-303: single nowait, max.val = 0
Single302(t) ==
    /\ Running(t, "single302")
    /\ IF single THEN UNCHANGED max
       ELSE max' = [max EXCEPT !.val = Zero]
    /\ single' = TRUE
    /\ Goto(t, "ratio")
    /\ UNCHANGED <<fixedVars, hist, tableau, min, count, conta, ni, pivot, pivot3,
                   pmax, pmin, pcount, pconta, next, elimI, status, prevObj,
                   curObj, snap>>

----------------------------------------------------------------------------
(* Lines 307-327: ratio test and unboundedness check *)

\* one guided chunk of the loop of lines 308-317 (i = 0 .. constraintNumb-1)
RatioChunk(t) ==
    /\ Running(t, "ratio")
    /\ next < constraintNumb
    /\ LET hi  == next + GuidedSize(constraintNumb - next)
           acc == RatioRows(next, hi,
                      [mn |-> pmin[t], cnt |-> pcount[t], pv |-> pivot[t]])
       IN  /\ pmin' = [pmin EXCEPT ![t] = acc.mn]
           /\ pcount' = [pcount EXCEPT ![t] = acc.cnt]
           /\ pivot' = [pivot EXCEPT ![t] = acc.pv]
           /\ next' = hi
    /\ UNCHANGED <<fixedVars, hist, tableau, max, min, count, conta, ni, pc,
                   pivot3, pmax, pconta, elimI, single, status, prevObj,
                   curObj, snap>>

\* reduction(+:count), reduction(minimo:min) of line 307
RatioCombine(t) ==
    /\ Running(t, "ratio")
    /\ next >= constraintNumb
    /\ min' = CombineMin(min, pmin[t])
    /\ count' = count + pcount[t]
    /\ pmin' = [pmin EXCEPT ![t] = EmptyMin]
    /\ pcount' = [pcount EXCEPT ![t] = 0]
    /\ Goto(t, "w_ratio")
    /\ UNCHANGED <<fixedVars, hist, tableau, max, conta, ni, pivot, pivot3, pmax,
                   pconta, next, elimI, single, status, prevObj, curObj,
                   snap>>

\* implicit barrier at the end of the loop of line 307
BarrierRatio ==
    /\ BarrierStep("w_ratio", "single319")
    /\ snap' = IF min.index = -1 THEN NoSnap
               ELSE [p |-> Cell(min.index, max.index),
                     f |-> RNeg(Cell(constraintNumb, max.index))]
    /\ hist' = [hist EXCEPT !.row = IF min.index = -1 THEN <<>>
                                    ELSE tableau[min.index]]
    /\ UNCHANGED <<fixedVars, tableau, max, min, count, conta, ni, pivot,
                   pivot3, pmax, pmin, pcount, pconta, elimI, status,
                   prevObj, curObj>>

\* lines 320-326 without the single construct: every thread runs the block
Single319EveryThread(t) ==
    /\ Running(t, "single319")
    /\ IF count = constraintNumb
       THEN /\ Goto(t, "exit")
            /\ UNCHANGED <<count, conta, hist>>
       ELSE /\ count' = 0
            /\ conta' = 0
            /\ hist' = [hist EXCEPT !.scratch = @ + 1]
            /\ Goto(t, "capture")
    /\ single' = TRUE
    /\ UNCHANGED <<fixedVars, tableau, max, min, ni, pivot, pivot3, pmax,
                   pmin, pcount, pconta, next, elimI, status, prevObj,
                   curObj, snap>>

\* lines 319-327: single nowait; the thread that takes it tests count
Single319(t) ==
    /\ Running(t, "single319")
    /\ IF single
       THEN /\ Goto(t, "capture")
            /\ UNCHANGED <<count, conta, hist>>
       ELSE IF count = constraintNumb
            THEN /\ Goto(t, "exit")
                 /\ UNCHANGED <<count, conta, hist>>
            ELSE /\ count' = 0
                 /\ conta' = 0
                 /\ hist' = [hist EXCEPT !.scratch = @ + 1]
                 /\ Goto(t, "capture")
    /\ single' = TRUE
    /\ UNCHANGED <<fixedVars, tableau, max, min, ni, pivot, pivot3, pmax,
                   pmin, pcount, pconta, next, elimI, status, prevObj,
                   curObj, snap>>

\* lines 322-323: printf and exit(1) end the process
Exit(t) ==
    /\ Running(t, "exit")
    /\ status' = "Unbounded"
    /\ UNCHANGED <<fixedVars, hist, tableau, max, min, count, conta, ni, pc, pivot,
                   pivot3, pmax, pmin, pcount, pconta, next, elimI, single,
                   prevObj, curObj, snap>>

----------------------------------------------------------------------------
(* Lines 329-336: capture of the pivot, barrier, normalisation *)

\* lines 329-330 with min.index a row of the matrix
Capture(t) ==
    /\ Running(t, "capture")
    /\ min.index # -1
    /\ pivot' = [pivot EXCEPT ![t] = Cell(min.index, max.index)]
    /\ pivot3' = [pivot3 EXCEPT ![t] = RNeg(Cell(constraintNumb, max.index))]
    /\ Goto(t, "w_332")
    /\ UNCHANGED <<fixedVars, hist, tableau, max, min, count, conta, ni, pmax,
                   pmin, pcount, pconta, next, elimI, single, status,
                   prevObj, curObj, snap>>

\* line 329 with min.index = -1: tableau[-1] is the word in front of the
\* row-pointer array, used as a row pointer; the read yields some value ...
CaptureWild(t) ==
    /\ Running(t, "capture")
    /\ min.index = -1
    /\ \E g \in GarbageVals : pivot' = [pivot EXCEPT ![t] = g]
    /\ pivot3' = [pivot3 EXCEPT ![t] = RNeg(Cell(constraintNumb, max.index))]
    /\ Goto(t, "w_332")
    /\ UNCHANGED <<fixedVars, hist, tableau, max, min, count, conta, ni, pmax,
                   pmin, pcount, pconta, next, elimI, single, status,
                   prevObj, curObj, snap>>

\* ... or faults
CaptureFault(t) ==
    /\ Running(t, "capture")
    /\ min.index = -1
    /\ status' = "Crashed"
    /\ UNCHANGED <<fixedVars, hist, tableau, max, min, count, conta, ni, pc, pivot,
                   pivot3, pmax, pmin, pcount, pconta, next, elimI, single,
                   prevObj, curObj, snap>>

\* line 332 without the barrier: a thread goes on to normalise by itself
Barrier332Missing ==
    /\ status = "Running"
    /\ \E t \in Threads :
          /\ pc[t] = "w_332"
          /\ Goto(t, "norm")
    /\ UNCHANGED <<fixedVars, hist, tableau, max, min, count, conta, ni, pivot,
                   pivot3, pmax, pmin, pcount, pconta, next, elimI, single,
                   status, prevObj, curObj, snap>>

\* line 332: #pragma omp barrier
Barrier332 ==
    /\ BarrierStep("w_332", "norm")
    /\ UNCHANGED <<fixedVars, hist, tableau, max, min, count, conta, ni, pivot,
                   pivot3, pmax, pmin, pcount, pconta, elimI, status,
                   prevObj, curObj, snap>>

\* lines 333-336: the thread's static block of columns of the pivot row
NormBlock(t) ==
    /\ Running(t, "norm")
    /\ LET lo == StaticLo(t, colNumb + 1)
           hi == StaticHi(t, colNumb + 1)
       IN  tableau' = [tableau EXCEPT ![min.index] =
                          [j \in 0..colNumb |->
                              IF lo <= j /\ j < hi
                              THEN RDiv(tableau[min.index][j], pivot[t])
                              ELSE tableau[min.index][j]]]
    /\ Goto(t, "w_norm")
    /\ UNCHANGED <<fixedVars, hist, max, min, count, conta, ni, pivot, pivot3,
                   pmax, pmin, pcount, pconta, next, elimI, single, status,
                   prevObj, curObj, snap>>

\* the loop of line 333 without its implicit barrier: a thread that has
\* normalised its columns goes on to the elimination by itself
BarrierNormMissing ==
    /\ status = "Running"
    /\ \E t \in Threads :
          /\ pc[t] = "w_norm"
          /\ Goto(t, IF StaticLo(t, constraintNumb) < StaticHi(t, constraintNumb)
                     THEN "elim" ELSE "objel")
          /\ elimI' = [elimI EXCEPT ![t] = StaticLo(t, constraintNumb)]
    /\ UNCHANGED <<fixedVars, hist, tableau, max, min, count, conta, ni, pivot,
                   pivot3, pmax, pmin, pcount, pconta, next, single, status,
                   prevObj, curObj, snap>>

\* implicit barrier at the end of the loop of line 333; each thread then
\* enters its static block of the loop of line 338 (empty blocks fall through)
BarrierNorm ==
    /\ status = "Running"
    /\ \A t \in Threads : pc[t] = "w_norm"
    /\ pc' = [t \in Threads |->
                 IF StaticLo(t, constraintNumb) < StaticHi(t, constraintNumb)
                 THEN "elim" ELSE "objel"]
    /\ elimI' = [t \in Threads |-> StaticLo(t, constraintNumb)]
    /\ next' = 0
    /\ single' = FALSE
    /\ hist' = [hist EXCEPT !.pivots = @ + 1]
    /\ UNCHANGED <<fixedVars, tableau, max, min, count, conta, ni, pivot,
                   pivot3, pmax, pmin, pcount, pconta, status, prevObj,
                   curObj, snap>>

----------------------------------------------------------------------------
(* Lines 338-359: elimination *)

\* line 341 reads the shared max.index
ElimCol == max.index

\* lines 339-346 for one row i of the thread's static block (nowait)
ElimRow(t) ==
    /\ Running(t, "elim")
    /\ LET i      == elimI[t]
           pivot2 == RNeg(Cell(i, ElimCol))
       IN  /\ tableau' =
                 IF i # min.index
                 THEN [tableau EXCEPT ![i] =
                          [j \in 0..colNumb |->
                              RAdd(RMul(pivot2, tableau[min.index][j]),
                                   tableau[i][j])]]
                 ELSE tableau
           /\ elimI' = [elimI EXCEPT ![t] = i + 1]
           /\ Goto(t, IF i + 1 < StaticHi(t, constraintNumb)
                      THEN "elim" ELSE "objel")
    /\ UNCHANGED <<fixedVars, hist, max, min, count, conta, ni, pivot, pivot3,
                   pmax, pmin, pcount, pconta, next, single, status, prevObj,
                   curObj, snap>>

\* one guided chunk of the loop of lines 350-359 (j = 0 .. colNumb)
ObjChunk(t) ==
    /\ Running(t, "objel")
    /\ next <= colNumb
    /\ LET hi  == next + GuidedSize(colNumb + 1 - next)
           acc == ObjCols(next, hi, pivot3[t],
                      [row |-> tableau[constraintNumb],
                       cnt |-> pconta[t], mx |-> pmax[t]])
       IN  /\ tableau' = [tableau EXCEPT ![constraintNumb] = acc.row]
           /\ pconta' = [pconta EXCEPT ![t] = acc.cnt]
           /\ pmax' = [pmax EXCEPT ![t] = acc.mx]
           /\ next' = hi
    /\ UNCHANGED <<fixedVars, hist, max, min, count, conta, ni, pc, pivot, pivot3,
                   pmin, pcount, elimI, single, status, prevObj, curObj,
                   snap>>

\* reduction(+:conta), reduction(maximo:max) of line 349
ObjCombine(t) ==
    /\ Running(t, "objel")
    /\ next > colNumb
    /\ conta' = conta + pconta[t]
    /\ max' = CombineMax(max, pmax[t])
    /\ pconta' = [pconta EXCEPT ![t] = 0]
    /\ pmax' = [pmax EXCEPT ![t] = EmptyMax]
    /\ Goto(t, "w_obj")
    /\ UNCHANGED <<fixedVars, hist, tableau, min, count, ni, pivot, pivot3, pmin,
                   pcount, next, elimI, single, status, prevObj, curObj,
                   snap>>

\* implicit barrier at the end of the loop of line 349
BarrierObj ==
    /\ BarrierStep("w_obj", "single361")
    /\ UNCHANGED <<fixedVars, hist, tableau, max, min, count, conta, ni, pivot,
                   pivot3, pmax, pmin, pcount, pconta, elimI, status,
                   prevObj, curObj, snap>>

----------------------------------------------------------------------------
(* Lines 361-368: end of iteration *)

\* lines 362-366 without the single construct: every thread does the bookkeeping
Single361EveryThread(t) ==
    /\ Running(t, "single361")
    /\ ni' = ni + 1
    /\ hist' = [hist EXCEPT !.sentinel = @ + 1]
    /\ max' = [max EXCEPT !.val = Zero]
    /\ min' = [min EXCEPT !.val = HUGE_VAL]
    /\ prevObj' = curObj
    /\ curObj' = tableau[constraintNumb][colNumb]
    /\ single' = TRUE
    /\ Goto(t, "w_single")
    /\ UNCHANGED <<fixedVars, tableau, count, conta, pivot, pivot3, pmax,
                   pmin, pcount, pconta, next, elimI, status, snap>>

\* lines 361-366: single; the thread that takes it does the bookkeeping
Single361(t) ==
    /\ Running(t, "single361")
    /\ IF single
       THEN UNCHANGED <<ni, max, min, prevObj, curObj, hist>>
       ELSE /\ ni' = ni + 1
            /\ hist' = [hist EXCEPT !.sentinel = @ + 1]
            /\ max' = [max EXCEPT !.val = Zero]
            /\ min' = [min EXCEPT !.val = HUGE_VAL]
            /\ prevObj' = curObj
            /\ curObj' = tableau[constraintNumb][colNumb]
    /\ single' = TRUE
    /\ Goto(t, "w_single")
    /\ UNCHANGED <<fixedVars, tableau, count, conta, pivot, pivot3, pmax,
                   pmin, pcount, pconta, next, elimI, status, snap>>

\* implicit barrier at the end of the single of line 361
BarrierSingle ==
    /\ BarrierStep("w_single", "while")
    /\ hist' = [hist EXCEPT !.scratch = 0, !.sentinel = 0]
    /\ UNCHANGED <<fixedVars, tableau, max, min, count, conta, ni, pivot,
                   pivot3, pmax, pmin, pcount, pconta, elimI, status,
                   prevObj, curObj, snap>>

\* line 367 with the reset of conta moved to the loop test: the thread that
\* evaluates the condition clears conta for the next iteration
WhileClearsConta(t) ==
    /\ Running(t, "while")
    /\ conta = 0 \/ ni < MaxNi
    /\ Goto(t, IF conta # 0 THEN "ratio" ELSE "done")
    /\ conta' = 0
    /\ UNCHANGED <<fixedVars, hist, tableau, max, min, count, ni, pivot,
                   pivot3, pmax, pmin, pcount, pconta, next, elimI, single,
                   status, prevObj, curObj, snap>>

\* line 367: while (conta)
While(t) ==
    /\ Running(t, "while")
    /\ conta = 0 \/ ni < MaxNi
    /\ Goto(t, IF conta # 0 THEN "ratio" ELSE "done")
    /\ UNCHANGED <<fixedVars, hist, tableau, max, min, count, conta, ni, pivot,
                   pivot3, pmax, pmin, pcount, pconta, next, elimI, single,
                   status, prevObj, curObj, snap>>

\* line 368: the region ends when every thread has left the loop; lines 380-381
Finish ==
    /\ status = "Running"
    /\ \A t \in Threads : pc[t] = "done"
    /\ status' = "Optimal"
    /\ UNCHANGED <<fixedVars, hist, tableau, max, min, count, conta, ni, pc, pivot,
                   pivot3, pmax, pmin, pcount, pconta, next, elimI, single,
                   prevObj, curObj, snap>>

----------------------------------------------------------------------------
(* Tableau cells a thread touches from its position in the region *)

\* cells <<i, j>> thread t writes before it leaves its current loop
Writes(t) ==
    CASE pc[t] = "norm" ->
             {<<min.index, j>> :
                 j \in StaticLo(t, colNumb + 1)..(StaticHi(t, colNumb + 1) - 1)}
      [] pc[t] = "elim" ->
             {<<i, j>> :
                 i \in (elimI[t]..(StaticHi(t, constraintNumb) - 1)) \ {min.index},
                 j \in 0..colNumb}
      [] pc[t] = "objel" ->
             {<<constraintNumb, j>> : j \in next..colNumb}
      [] OTHER -> {}

\* cells <<i, j>> thread t reads before it leaves its current loop or statement
Reads(t) ==
    CASE pc[t] = "scan0" ->
             {<<constraintNumb, j>> : j \in next..colNumb}
      [] pc[t] = "ratio" ->
             {<<i, j>> : i \in next..(constraintNumb - 1),
                         j \in {max.index, colNumb} \cap (0..colNumb)}
      [] pc[t] = "capture" ->
             {<<i, max.index>> : i \in {min.index, constraintNumb}}
      [] pc[t] = "norm" -> Writes(t)
      [] pc[t] = "elim" ->
             Writes(t) \cup {<<min.index, j>> : j \in 0..colNumb}
      [] pc[t] = "objel" ->
             Writes(t) \cup {<<min.index, j>> : j \in next..colNumb}
      [] OTHER -> {}

Next ==
    \/ \E t \in Threads : Scan0Chunk(t)
    \/ \E t \in Threads : Scan0Combine(t)
    \/ \E t \in Threads : Single302(t)
    \/ \E t \in Threads : RatioChunk(t)
    \/ \E t \in Threads : RatioCombine(t)
    \/ \E t \in Threads : Single319(t)
    \/ \E t \in Threads : Exit(t)
    \/ \E t \in Threads : Capture(t)
    \/ \E t \in Threads : CaptureWild(t)
    \/ \E t \in Threads : CaptureFault(t)
    \/ \E t \in Threads : NormBlock(t)
    \/ \E t \in Threads : ElimRow(t)
    \/ \E t \in Threads : ObjChunk(t)
    \/ \E t \in Threads : ObjCombine(t)
    \/ \E t \in Threads : Single361(t)
    \/ \E t \in Threads : While(t)
    \/ BarrierScan0
    \/ BarrierRatio
    \/ Barrier332
    \/ BarrierNorm
    \/ BarrierObj
    \/ BarrierSingle
    \/ Finish

Spec == Init /\ [][Next]_vars

\* the threads of the team are scheduled fairly
FairSpec == Spec /\ WF_vars(Next)

----------------------------------------------------------------------------
(* A second run of the program on the same input, thread count and chunk *)

\* the first run printed its result (lines 380-381); the program is started again
Rerun ==
    /\ status = "Optimal"
    /\ first = NoFirst
    /\ first' = [ni |-> ni, obj |-> tableau[constraintNumb][colNumb]]
    /\ tableau' = T0
    /\ max' = EmptyMax
    /\ min' = EmptyMin
    /\ count' = 0
    /\ conta' = 0
    /\ ni' = 0
    /\ pc' = [t \in Threads |-> "scan0"]
    /\ pivot' = [t \in Threads |-> Zero]
    /\ pivot3' = [t \in Threads |-> Zero]
    /\ pmax' = [t \in Threads |-> EmptyMax]
    /\ pmin' = [t \in Threads |-> EmptyMin]
    /\ pcount' = [t \in Threads |-> 0]
    /\ pconta' = [t \in Threads |-> 0]
    /\ next' = 0
    /\ elimI' = [t \in Threads |-> 0]
    /\ single' = FALSE
    /\ status' = "Running"
    /\ prevObj' = NoVal
    /\ curObj' = NoVal
    /\ snap' = NoSnap
    /\ hist' = NoHist
    /\ UNCHANGED <<constraintNumb, colNumb, numbThreads, chunk, oob, T0, alloc>>

NextTwoRuns == Next \/ Rerun

SpecTwoRuns == Init /\ [][NextTwoRuns]_vars

----------------------------------------------------------------------------
(* alocate_matrix, lines 93-110 *)

\* what new (nothrow) double[nC] may return: 0 is the null pointer
RowPointers == {0, 1}

\* the address tableau + i, in units of one row pointer
SlotAddr(base, i) == base + i

InitAlloc ==
    /\ constraintNumb = Scenario2.cn
    /\ colNumb = Scenario2.col
    /\ tableau = Scenario2.t
    /\ T0 = Scenario2.t
    /\ oob = [i \in 0..Scenario2.cn |-> Zero]
    /\ numbThreads = 1
    /\ chunk = 1
    /\ max = EmptyMax
    /\ min = EmptyMin
    /\ count = 0
    /\ conta = 0
    /\ ni = 0
    /\ pc = [t \in {0} |-> "scan0"]
    /\ pivot = [t \in {0} |-> Zero]
    /\ pivot3 = [t \in {0} |-> Zero]
    /\ pmax = [t \in {0} |-> EmptyMax]
    /\ pmin = [t \in {0} |-> EmptyMin]
    /\ pcount = [t \in {0} |-> 0]
    /\ pconta = [t \in {0} |-> 0]
    /\ next = 0
    /\ elimI = [t \in {0} |-> 0]
    /\ single = FALSE
    /\ status = "Allocating"
    /\ prevObj = NoVal
    /\ curObj = NoVal
    /\ snap = NoSnap
    /\ first = NoFirst
    /\ hist = NoHist
    /\ \E n \in 1..MaxNL :
          alloc = [pc |-> "start", nL |-> n, base |-> 0, i |-> 0, rows |-> <<>>]

AllocUnchanged ==
    UNCHANGED <<constraintNumb, colNumb, numbThreads, chunk, oob, T0, first,
                tableau, max, min, count, conta, ni, pc, pivot, pivot3, pmax,
                pmin, pcount, pconta, next, elimI, single, status, prevObj,
                curObj, snap, hist>>

\* lines 95-100: the row-pointer array; a null result ends the process
AllocArray ==
    /\ alloc.pc = "start"
    /\ \E a \in 0..MaxAddr :
          alloc' = [alloc EXCEPT !.base = a,
                                 !.pc = IF a = 0 THEN "exit" ELSE "loop"]
    /\ AllocUnchanged

\* lines 102-108: one row buffer, then the test (tableau + i) == 0
AllocRow ==
    /\ alloc.pc = "loop"
    /\ alloc.i < alloc.nL
    /\ \E r \in RowPointers :
          alloc' = IF SlotAddr(alloc.base, alloc.i) = 0
                   THEN [alloc EXCEPT !.rows = Append(@, r), !.pc = "exit"]
                   ELSE [alloc EXCEPT !.rows = Append(@, r), !.i = @ + 1]
    /\ AllocUnchanged

\* line 109: return tableau
AllocReturn ==
    /\ alloc.pc = "loop"
    /\ alloc.i = alloc.nL
    /\ alloc' = [alloc EXCEPT !.pc = "returned"]
    /\ AllocUnchanged

NextAlloc == AllocArray \/ AllocRow \/ AllocReturn

SpecAlloc == InitAlloc /\ [][NextAlloc]_vars

----------------------------------------------------------------------------
(* Properties *)

\* the objective value tableau[constraintNumb][colNumb]
ObjValue == tableau[constraintNumb][colNumb]

\* every constraint row of T has a right-hand side >= 0
RhsNonNegative(T) ==
    \A i \in 0..(constraintNumb - 1) : ~RLess(T[i][colNumb], Zero)

\* the initial scan of this run found no negative objective-row entry
InitialScanFoundNone ==
    \A j \in 0..colNumb : ~RLess(T0[constraintNumb][j], Zero)

\* C1: when the pivot loop has exited normally (Optimal), every objective-row
\* entry in columns 0..colNumb-1 is >= 0, for every thread count and schedule.
C1_OptimalRowNonNegative ==
    status = "Optimal" =>
        \A j \in 0..(colNumb - 1) : ~RLess(tableau[constraintNumb][j], Zero)

\* C1 witness: a run of two threads that pivoted at least twice and ended Optimal
C1_Witness ==
    status = "Optimal" /\ numbThreads = 2 /\ ni >= 2 /\ ~InitialScanFoundNone

\* C2: once a ratio test has found every constraint row ineligible
\* (count = constraintNumb), the run ends in the Unbounded failure: the process
\* has not crashed and no thread has started the pivot of that iteration.
C2_UnboundedIsReported ==
    (count = constraintNumb /\ constraintNumb > 0
        /\ \A t \in Threads : pc[t] \in {"single319", "capture", "w_332", "exit"})
    => status \in {"Running", "Unbounded"}

\* C3: when the initial scan finds no negative objective-row entry, the engine
\* ends Optimal with zero pivots: no thread enters the ratio test or the
\* elimination, ni stays 0 and the tableau stays as it was handed over.
C3_NoPivotWhenAlreadyOptimal ==
    InitialScanFoundNone =>
        /\ \A t \in Threads : pc[t] \in {"scan0", "w_scan0", "single302", "done"}
        /\ status \in {"Running", "Optimal"}
        /\ ni = 0
        /\ tableau = T0

\* C4: on the 3-constraint scenario tableau the engine ends Optimal with
\* objective value 36 after exactly 2 pivots, for every thread count and chunk.
C4_ScenarioResult ==
    T0 = Scenario1.t =>
        /\ status \in {"Running", "Optimal"}
        /\ status = "Optimal" => (ni = 2 /\ ObjValue = RInt(36))

\* C5: given initial right-hand sides >= 0, at every entry into the ratio test
\* every constraint row has a right-hand side >= 0.
C5_RhsStaysFeasible ==
    (RhsNonNegative(T0) /\ \E t \in Threads : pc[t] = "ratio")
    => RhsNonNegative(tableau)

\* C6: given initial right-hand sides >= 0, the objective value seen at the end
\* of an iteration is never below the one seen at the end of the previous one.
C6_ObjectiveMonotone ==
    (RhsNonNegative(T0) /\ prevObj # NoVal) => ~RLess(curObj, prevObj)

\* C7: two runs on the same input with the same thread count and chunk size
\* end with the same iteration count and the same objective value.
C7_SameResultTwice ==
    (status = "Optimal" /\ first # NoFirst)
    => (ni = first.ni /\ ObjValue = first.obj)

\* C8: alocate_matrix never returns a matrix that holds a null row: a failed
\* allocation of the array or of a row ends the process instead.
C8_NoNullRowReturned ==
    alloc.pc = "returned" =>
        \A k \in 1..Len(alloc.rows) : alloc.rows[k] # 0

\* C9: under fair scheduling every run of the pivot loop eventually reaches the
\* Optimal or the Unbounded terminal state (runs the model stops following
\* after MaxNi pivots are not counted against the claim).
C9_ReachesTerminalState ==
    <>(status \in {"Optimal", "Unbounded"} \/ ni >= MaxNi)

\* C10: a thread that has captured the pivot holds tableau[min.index][max.index]
\* and -tableau[constraintNumb][max.index] as they were when the ratio test
\* ended, and no thread normalises while another has still to capture.
C10_CaptureBeforeNormalize ==
    /\ \A t \in Threads :
          (status = "Running" /\ pc[t] \in {"w_332", "norm", "w_norm"}
              /\ snap # NoSnap)
          => (pivot[t] = snap.p /\ pivot3[t] = snap.f)
    /\ (\E t \in Threads : pc[t] \in {"norm", "w_norm"})
       => (\A t \in Threads : pc[t] \in {"norm", "w_norm"})

\* C10 witness: one thread has normalised its columns of the pivot row, the
\* pivot entry among them, while the other still holds the captured pivot
C10_Witness ==
    /\ numbThreads = 2
    /\ snap # NoSnap
    /\ snap.p # RInt(1)
    /\ max.index # -1
    /\ tableau[min.index][max.index] = RInt(1)
    /\ \E t \in Threads : pc[t] = "norm" /\ pivot[t] = snap.p

\* the phases of an iteration that eliminate against the pivot row
ElimPhase == {"elim", "objel", "w_obj"}

\* C11: while any thread eliminates a constraint row or the objective row, no
\* thread is still normalising, and every entry of the pivot row (columns
\* 0..colNumb) is the entry the ratio test left divided by the pivot.
C11_EliminationSeesNormalizedRow ==
    (\E t \in Threads : pc[t] \in ElimPhase) =>
        /\ \A t \in Threads : pc[t] \in ElimPhase
        /\ snap # NoSnap =>
              \A j \in 0..colNumb :
                  tableau[min.index][j] = RDiv(hist.row[j], snap.p)

\* C11 witness: with a pivot other than 1, one thread is eliminating its
\* constraint rows while the other has already updated objective-row entries
C11_Witness ==
    /\ numbThreads = 2
    /\ snap # NoSnap
    /\ snap.p # RInt(1)
    /\ \E t \in Threads : pc[t] = "elim"
    /\ \E t \in Threads : pc[t] = "objel"
    /\ next > 0

\* C12: no two threads access the same tableau cell with one of them writing
\* (two threads inside the guided objective loop are handed disjoint columns
\* by the schedule and are not compared), and while a thread still eliminates
\* constraint rows no thread is outside the elimination phases, so none has
\* started the next ratio test.
C12_NoTableauRace ==
    /\ \A t, u \in Threads :
          (status = "Running" /\ t # u /\ ~(pc[t] = "objel" /\ pc[u] = "objel"))
          => Writes(t) \cap (Reads(u) \cup Writes(u)) = {}
    /\ (\E t \in Threads : pc[t] = "elim")
       => (\A u \in Threads : pc[u] \in ElimPhase)

\* C12 witness: thread 0 still has constraint-row cells to write while thread 1
\* has written objective-row cells
C12_Witness ==
    /\ numbThreads = 2
    /\ status = "Running"
    /\ pc[0] = "elim" /\ Writes(0) # {}
    /\ pc[1] = "objel" /\ next > 0 /\ next <= colNumb

\* a step that resets the counters count and conta (lines 325-326)
CounterResetStep == hist'.scratch > hist.scratch

\* a step that resets the sentinels max.val and min.val (lines 364-365)
SentinelResetStep == hist'.sentinel > hist.sentinel

\* every thread has finished the iteration's elimination work and none has
\* begun the next iteration
AllAfterElimination == \A t \in Threads : pc[t] \in {"single361", "w_single"}

\* C13 as stated: count, conta, max.val and min.val are reset exactly once per
\* iteration, each reset in a section that runs only after all threads have
\* finished that iteration's elimination work and before any begins the next.
C13_ResetOnlyAfterElimination ==
    [][/\ (CounterResetStep \/ SentinelResetStep) => AllAfterElimination
       /\ hist'.scratch <= 1 /\ hist'.sentinel <= 1
       /\ (\A t \in Threads : pc[t] = "w_single")
          => (hist.scratch = 1 /\ hist.sentinel = 1)]_vars

\* C13 amended: exactly once per iteration each; max.val and min.val are reset
\* after all threads finished the elimination work and before any begins the
\* next iteration, while count and conta are reset after every thread finished
\* the ratio test and before any thread starts normalising the pivot row.
C13_ResetPlacement ==
    [][/\ SentinelResetStep =>
             /\ AllAfterElimination
             /\ max'.val = Zero /\ min'.val = HUGE_VAL
       /\ CounterResetStep =>
             /\ \A t \in Threads : pc[t] \in {"single319", "capture", "w_332"}
             /\ count' = 0 /\ conta' = 0
       /\ hist'.scratch <= 1 /\ hist'.sentinel <= 1
       /\ (\A t \in Threads : pc[t] = "w_single")
          => (hist.scratch = 1 /\ hist.sentinel = 1)]_vars

\* C13 witness: two threads at the end of their second iteration, each reset
\* done once in it
C13_Witness ==
    /\ numbThreads = 2
    /\ ni >= 2
    /\ \A t \in Threads : pc[t] = "w_single"
    /\ hist.scratch = 1 /\ hist.sentinel = 1

\* C14: no entering-variable scan, the initial one or the one fused into the
\* objective-row elimination, ever selects the RHS/objective-value column as
\* the pivot column, whatever the objective-value cell holds.
C14_RhsNeverSelected ==
    max.index # colNumb

\* what a separate sequential pass over the objective row would count: the
\* columns j < colNumb with a strictly negative entry
NegCols ==
    {j \in 0..(colNumb - 1) : RLess(tableau[constraintNumb][j], Zero)}

\* every thread is past the barrier that ends the fused scan of this iteration
ScanDone == \A t \in Threads : pc[t] \in {"single361", "w_single", "while"}

\* C15: after each pivot the fused scan agrees with a sequential pass over the
\* updated objective row: conta is the number of negative entries in columns
\* below colNumb, and a unique most negative entry is at column max.index,
\* for every partition of the columns and every combine order.
C15_FusedScanEqualsFullPass ==
    ScanDone =>
        /\ conta = Cardinality(NegCols)
        /\ \A j \in NegCols :
              (\A k \in NegCols \ {j} :
                  RLess(tableau[constraintNumb][j], tableau[constraintNumb][k]))
              => max.index = j

\* C15 witness: two threads have scanned an objective row that still holds two
\* negative entries of different size
C15_Witness ==
    /\ numbThreads = 2
    /\ \A t \in Threads : pc[t] = "single361"
    /\ Cardinality(NegCols) >= 2
    /\ \E j \in NegCols :
          \A k \in NegCols \ {j} :
              RLess(tableau[constraintNumb][j], tableau[constraintNumb][k])

\* the constraint rows with a strictly positive entry in the pivot column
EligibleRows ==
    {i \in 0..(constraintNumb - 1) : RLess(Zero, Cell(i, max.index))}

\* RHS / pivot-column entry of row i
Ratio(i) == RDiv(tableau[i][colNumb], Cell(i, max.index))

\* every thread is past the barrier that ends the ratio test, and the single
\* section after it has not run yet
RatioDone == ~single /\ \A t \in Threads : pc[t] = "single319"

\* C16: after each ratio test, count is the number of constraint rows whose
\* pivot-column entry is <= 0 and, when some row is eligible, min.index is an
\* eligible constraint row whose ratio is the minimum over the eligible rows
\* and min.val is that ratio, for every partition of the rows and every
\* combine order.
C16_RatioTestResult ==
    RatioDone =>
        /\ count = constraintNumb - Cardinality(EligibleRows)
        /\ EligibleRows # {} =>
              /\ min.index \in EligibleRows
              /\ min.val = Ratio(min.index)
              /\ \A k \in EligibleRows : ~RLess(Ratio(k), min.val)

\* C16 witness: two threads have tested three rows, one ineligible and two
\* eligible with different ratios
C16_Witness ==
    /\ numbThreads = 2
    /\ RatioDone
    /\ count >= 1
    /\ \E i, k \in EligibleRows : RLess(Ratio(i), Ratio(k))

\* C17: the end-of-iteration bookkeeping runs in one thread, once per
\* iteration, whatever the thread count: ni counts the completed iterations,
\* and at the Optimal exit ni is the number of pivots performed on the tableau.
C17_OneBookkeepingPerIteration ==
    /\ hist.sentinel <= 1
    /\ (\A t \in Threads : pc[t] \in {"w_single", "while"}) => ni = hist.pivots
    /\ ni <= hist.pivots /\ hist.pivots <= ni + 1
    /\ status = "Optimal" => ni = hist.pivots

\* C17 witness: a run of two threads that ended Optimal after two or more pivots
C17_Witness ==
    /\ numbThreads = 2
    /\ status = "Optimal"
    /\ hist.pivots >= 2
    /\ ni = hist.pivots

\* C18: while some thread has still to evaluate while (conta), conta is not
\* written and every other thread is either at the test too or where the
\* current value of conta sends it (the next ratio test, or out of the loop);
\* so all threads of the team take the same decision in every iteration.
C18_SameLoopDecision ==
    [][(\E t \in Threads : pc[t] = "while") =>
          /\ conta' = conta
          /\ \A u \in Threads :
                pc[u] \in {"while"} \cup (IF conta # 0 THEN {"ratio", "w_ratio"}
                                                       ELSE {"done"})]_vars

\* C18 witness: one of two threads has gone round to the next ratio test and
\* waits at its barrier while the other has still to evaluate the condition
C18_Witness ==
    /\ numbThreads = 2
    /\ conta # 0
    /\ \E t \in Threads : pc[t] = "while"
    /\ \E u \in Threads : pc[u] = "w_ratio"

\* C19: wherever a thread is about to index the tableau with max.index or
\* min.index, the column index is in 0..colNumb and the row index is a
\* constraint row: neither is the empty-sentinel index -1, also for a thread
\* that skipped the single section of the unboundedness check.
C19_IndicesInRange ==
    status = "Running" =>
        \A t \in Threads :
            /\ (pc[t] = "ratio" /\ next < constraintNumb)
               => max.index \in 0..colNumb
            /\ pc[t] \in {"capture", "norm", "elim", "objel"}
               => (max.index \in 0..colNumb
                   /\ min.index \in 0..(constraintNumb - 1))

\* a ratio test has started and no thread has combined its partial results yet
RatioTestStarted ==
    /\ \E t \in Threads : pc[t] = "ratio"
    /\ \A t \in Threads : pc[t] # "w_ratio"

\* the elimination has started and no thread has combined the partial results
\* of its fused scan yet
FusedScanStarted == \A t \in Threads : pc[t] \in {"elim", "objel"}

\* C20: when a ratio test starts, count = 0 and min.val = HUGE_VAL; when a
\* fused objective-row scan starts, conta = 0 and max.val = 0: nothing of an
\* earlier iteration is left in the shared scratch values.
C20_ScratchEmptyAtPhaseStart ==
    /\ RatioTestStarted => (count = 0 /\ min.val = HUGE_VAL)
    /\ FusedScanStarted => (conta = 0 /\ max.val = Zero)

\* C20 witness: two threads start the fused scan of a later iteration, after
\* an iteration that left negative entries in the objective row
C20_Witness ==
    /\ numbThreads = 2
    /\ ni >= 1
    /\ FusedScanStarted
    /\ next = 0
    /\ conta = 0

====
